---- MODULE Spec2Model ----
(***************************************************************************)
(* Model of setup.py of PyMiniRacer: the two distutils commands it         *)
(* registers (build_ext -> MiniRacerBuildExt, build_v8 ->                  *)
(* MiniRacerBuildV8), the helpers they call and the part of the            *)
(* environment they read and write (the files they test and create, the    *)
(* `python` executable, the platform, the Command base class in use).      *)
(*                                                                         *)
(* A Python optional string is a sequence of length at most one: <<>> is   *)
(* None and <<s>> is the string s.  Strings that the code inspects         *)
(* character by character are sequences of one-character strings.          *)
(***************************************************************************)
EXTENDS Integers, Sequences, FiniteSets, TLC

\* Number of times setup.py is invoked in one behaviour (files persist
\* from one invocation to the next).
MaxInvocations == 2

VARIABLES
    useSetuptools,  \* TRUE: lines 18-20 imported; FALSE: the fallback of lines 22-24
    osName,         \* os.name
    sysPlatform,    \* sys.platform
    pythonExe,      \* what running ['python', '--version'] gives
    files,          \* the paths that exist (files and directories)
    invocations,    \* setup.py invocations started so far
    command,        \* the command this invocation runs: "none" between invocations
    target,         \* self.target of the build_v8 command object
    debug,          \* self.debug of the build_ext command object
    extPc,          \* position in MiniRacerBuildExt.build_extensions
    v8Pc,           \* position in MiniRacerBuildV8.run
    exc,            \* the exception in flight or raised (NoExc: none)
    caught,         \* `e` bound by the except clause of build_extensions
    filesAtRun,     \* the files that existed when MiniRacerBuildV8.run was entered
    log             \* the calls made and lines printed by this invocation, in order

vars == <<useSetuptools, osName, sysPlatform, pythonExe, files, invocations,
          command, target, debug, extPc, v8Pc, exc, caught, filesAtRun, log>>

env == <<useSetuptools, osName, sysPlatform, pythonExe>>

-----------------------------------------------------------------------------
(* Values *)

None == <<>>
Some(s) == <<s>>

SHARED_LIB_TARGET == "py_mini_racer_shared_lib"

\* The values of the option 'target=' (None: the option was not given).
Targets == {None, Some("v8"), Some(SHARED_LIB_TARGET), Some("d8"), Some("")}

NoExc == [type |-> "", arg |-> ""]

Raised(type, arg) == [type |-> type, arg |-> arg]

\* repr of an exception instance
Repr(e) == e.type \o "('" \o e.arg \o "')"

Event(ev, ok, arg) == [ev |-> ev, ok |-> ok, arg |-> arg]

-----------------------------------------------------------------------------
(* Character strings *)

RECURSIVE Concat(_)
Concat(cs) == IF cs = <<>> THEN "" ELSE Head(cs) \o Concat(Tail(cs))

Whitespace == {" ", "\n", "\t", "\r"}

RECURSIVE LStrip(_)
LStrip(cs) ==
    IF cs # <<>> /\ Head(cs) \in Whitespace THEN LStrip(Tail(cs)) ELSE cs

RECURSIVE RStrip(_)
RStrip(cs) ==
    IF cs # <<>> /\ cs[Len(cs)] \in Whitespace
    THEN RStrip(SubSeq(cs, 1, Len(cs) - 1))
    ELSE cs

Strip(cs) == RStrip(LStrip(cs))

StartsWith(cs, prefix) ==
    /\ Len(cs) >= Len(prefix)
    /\ SubSeq(cs, 1, Len(prefix)) = prefix

\* str.split(sep) for a one-character separator: the list of the pieces
RECURSIVE SplitAcc(_, _, _)
SplitAcc(cs, sep, piece) ==
    IF cs = <<>> THEN <<piece>>
    ELSE IF Head(cs) = sep THEN <<piece>> \o SplitAcc(Tail(cs), sep, <<>>)
    ELSE SplitAcc(Tail(cs), sep, Append(piece, Head(cs)))

Split(cs, sep) == SplitAcc(cs, sep, <<>>)

Py27Out == <<"P","y","t","h","o","n"," ","2",".","7",".","1","5","\n">>
Py26Out == <<"P","y","t","h","o","n"," ","2",".","6",".","9","\n">>
Py36Out == <<"P","y","t","h","o","n"," ","3",".","6",".","5","\n">>

PythonOutputs == {Py27Out, Py26Out, Py36Out}

\* `python` on the PATH prints one of the outputs, or there is no such
\* executable and check_output raises OSError.
PythonExes ==
    {[found |-> TRUE, out |-> o] : o \in PythonOutputs}
        \cup {[found |-> FALSE, out |-> <<>>]}

Platforms == {<<"posix", "darwin">>, <<"nt", "win32">>, <<"posix", "linux">>}

-----------------------------------------------------------------------------
(* Paths: a path is the sequence of its components, os.path.join is        *)
(* concatenation.                                                          *)

join(a, b) == a \o b

\* dirname(__file__) of setup.py, made absolute
SetupDir == <<"PyMiniRacer">>

\* local_path of py_mini_racer.extension.v8_build: relative to that module
V8BuildDir == join(SetupDir, <<"py_mini_racer", "extension">>)

\* self.build_lib of the build_ext command
BuildLib == join(SetupDir, <<"build", "lib">>)

local_path(path) == join(SetupDir, path)

local_path_v8(path) == join(V8BuildDir, path)

isfile(fs, path) == path \in fs

isdir(fs, path) == path \in fs

DepotToolsDir == <<"vendor", "depot_tools">>

-----------------------------------------------------------------------------
(* Helpers of setup.py *)

PYTHON_27 == <<"P","y","t","h","o","n"," ","2",".","7">>

PYTHON_2 == <<"P","y","t","h","o","n"," ","2">>

check_python_version_any2(output) == StartsWith(Strip(output), PYTHON_2)

\* output.strip().decode().startswith('Python 2.7'); the output is ASCII,
\* which decode() maps character for character.
check_python_version(output) == StartsWith(Strip(output), PYTHON_27)

is_depot_tools_checkout(fs) == isdir(fs, local_path(DepotToolsDir))

V8_FILES == {"libv8_base.a"}

is_v8_built(fs) ==
    \A f \in V8_FILES : isfile(fs, local_path_v8(join(<<"out", "obj", "v8">>, <<f>>)))

get_filename(os, platform) ==
    LET pe == IF os = "posix" /\ platform = "darwin" THEN <<"lib", ".dylib">>
              ELSE IF platform = "win32" THEN <<"", ".dll">>
              ELSE <<"lib", ".so">>
    IN  pe[1] \o "mini_racer" \o pe[2]

get_ext_filename(name) ==
    LET ext   == ".so"
        parts == Split(name, ".")
        last  == Concat(parts[Len(parts)]) \o ext
        init  == [i \in 1..(Len(parts) - 1) |-> Concat(parts[i])]
    IN  join(init, <<last>>)

\* "_v8", the name build_extensions asks get_ext_filename for
V8_EXT_NAME == <<"_", "v", "8">>

\* src and dest of build_extensions
ExtSrc(os, platform) == join(local_path_v8(<<"out">>), <<get_filename(os, platform)>>)

ExtDest == join(BuildLib, get_ext_filename(V8_EXT_NAME))

ShortCircuitAnyTarget(t, fs) == is_v8_built(fs)

\* the condition of the first `if` of MiniRacerBuildV8.run
ShortCircuit(t, fs) == (t = None \/ t = Some("v8")) /\ is_v8_built(fs)

\* self.target or "v8"
TargetName(t) == IF t = None \/ t = Some("") THEN "v8" ELSE t[1]

ERR_MSG_HEAD == "py_mini_racer failed to build, ensure you have an up-to-date pip (>= 8.1) to use the wheel instead ... Original error: "

\* err_msg % repr(e)
ErrMsg(e) == ERR_MSG_HEAD \o Repr(e)

PYTHON_MSG == "py_mini_racer cannot build V8 in the current configuration."

\* The paths the commands test or create on a platform.
V8Lib == local_path_v8(<<"out", "obj", "v8", "libv8_base.a">>)

Universe(os, platform) ==
    {V8Lib, local_path(DepotToolsDir), ExtSrc(os, platform), ExtDest}

\* What a build_v8(target) that returns may have written.
BuildProducts(os, platform) == SUBSET {V8Lib, ExtSrc(os, platform)}

-----------------------------------------------------------------------------
(* The state before setup.py is first invoked *)

Init ==
    /\ useSetuptools \in BOOLEAN
    /\ \E pl \in Platforms :
          /\ osName = pl[1]
          /\ sysPlatform = pl[2]
          /\ files \in SUBSET Universe(pl[1], pl[2])
    /\ pythonExe \in PythonExes
    /\ invocations = 0
    /\ command = "none"
    /\ target = None
    /\ debug = FALSE
    /\ extPc = "idle"
    /\ v8Pc = "idle"
    /\ exc = NoExc
    /\ caught = NoExc
    /\ filesAtRun = {}
    /\ log = <<>>

-----------------------------------------------------------------------------
(* `python setup.py build_v8 [--target=t]` and `python setup.py build_ext` *)

\* The build_v8 command object is created (initialize_options: target =
\* None), the option 'target=' is applied if given, and run is entered.
InvokeBuildV8(t) ==
    /\ command = "none"
    /\ invocations < MaxInvocations
    /\ invocations' = invocations + 1
    /\ command' = "build_v8"
    /\ target' = t
    /\ v8Pc' = "start"
    /\ filesAtRun' = files
    /\ log' = <<Event("run", TRUE, t)>>
    /\ UNCHANGED <<env, files, debug, extPc, exc, caught>>

\* build_ext reaches build_extensions (ext_modules holds one extension).
InvokeBuildExt ==
    /\ command = "none"
    /\ invocations < MaxInvocations
    /\ invocations' = invocations + 1
    /\ command' = "build_ext"
    /\ extPc' = "start"
    /\ log' = <<>>
    /\ UNCHANGED <<env, files, target, debug, v8Pc, exc, caught, filesAtRun>>

\* The process ends, normally or with the exception raised; the files stay.
Exit ==
    /\ \/ command = "build_v8" /\ v8Pc \in {"returned", "raised"}
       \/ command = "build_ext" /\ extPc \in {"returned", "raised"}
    /\ command' = "none"
    /\ target' = None
    /\ debug' = FALSE
    /\ extPc' = "idle"
    /\ v8Pc' = "idle"
    /\ exc' = NoExc
    /\ caught' = NoExc
    /\ filesAtRun' = {}
    /\ log' = <<>>
    /\ UNCHANGED <<env, files, invocations>>

-----------------------------------------------------------------------------
(* MiniRacerBuildV8.run *)

\* if (self.target is None or self.target == "v8") and is_v8_built():
RunCheckBuilt ==
    /\ v8Pc = "start"
    /\ IF ShortCircuit(target, files)
       THEN /\ log' = Append(log, Event("print already built", TRUE, None))
            /\ v8Pc' = "returned"
       ELSE /\ log' = log
            /\ v8Pc' = "check_python"
    /\ UNCHANGED <<env, files, invocations, command, target, debug, extPc,
                   exc, caught, filesAtRun>>

\* if not check_python_version(): raise Exception(msg)
\* check_output itself raises OSError when there is no `python` to run.
RunCheckPython ==
    /\ v8Pc = "check_python"
    /\ IF ~pythonExe.found
       THEN /\ log' = Append(log, Event("check_python_version", FALSE, None))
            /\ exc' = Raised("OSError", "No such file or directory")
            /\ v8Pc' = "raised"
       ELSE IF ~check_python_version(pythonExe.out)
       THEN /\ log' = Append(log, Event("check_python_version", FALSE, None))
            /\ exc' = Raised("Exception", PYTHON_MSG)
            /\ v8Pc' = "raised"
       ELSE /\ log' = Append(log, Event("check_python_version", TRUE, None))
            /\ exc' = exc
            /\ v8Pc' = "check_depot"
    /\ UNCHANGED <<env, files, invocations, command, target, debug, extPc,
                   caught, filesAtRun>>

\* if not is_depot_tools_checkout():
RunCheckDepotTools ==
    /\ v8Pc = "check_depot"
    /\ log' = Append(log, Event("is_depot_tools_checkout",
                                is_depot_tools_checkout(files), None))
    /\ v8Pc' = IF is_depot_tools_checkout(files) THEN "build" ELSE "clone"
    /\ UNCHANGED <<env, files, invocations, command, target, debug, extPc,
                   exc, caught, filesAtRun>>

\* check_call(['git', 'clone', ..., 'vendor/depot_tools']): git exits 0
\* having made the directory, or check_call raises CalledProcessError.
\* setup.py opens README.rst, HISTORY.rst and requirements/ relative to the
\* working directory (lines 31-61), so it runs in its own directory and
\* 'vendor/depot_tools' is local_path('vendor/depot_tools').
RunCloneDepotTools ==
    /\ v8Pc = "clone"
    /\ \E ok \in BOOLEAN :
          /\ log' = Append(log, Event("git clone", ok, None))
          /\ IF ok
             THEN /\ files' = files \cup {local_path(DepotToolsDir)}
                  /\ exc' = exc
                  /\ v8Pc' = "build"
             ELSE /\ files' = files
                  /\ exc' = Raised("CalledProcessError", "git clone")
                  /\ v8Pc' = "raised"
    /\ UNCHANGED <<env, invocations, command, target, debug, extPc, caught,
                   filesAtRun>>

\* print("building ..."); build_v8(self.target): the build returns, having
\* written some of its products, or raises.
RunBuildV8 ==
    /\ v8Pc = "build"
    /\ \E ok \in BOOLEAN, made \in BuildProducts(osName, sysPlatform) :
          /\ log' = log \o <<Event("print building", TRUE, Some(TargetName(target))),
                             Event("build_v8", ok, target)>>
          /\ files' = files \cup made
          /\ IF ok
             THEN exc' = exc /\ v8Pc' = "returned"
             ELSE exc' = Raised("CalledProcessError", "build_v8") /\ v8Pc' = "raised"
    /\ UNCHANGED <<env, invocations, command, target, debug, extPc, caught,
                   filesAtRun>>

-----------------------------------------------------------------------------
(* MiniRacerBuildExt.build_extensions *)

\* self.debug = True; src = ...; dest = ...; if not os.path.isfile(src):
ExtCheckSrc ==
    /\ extPc = "start"
    /\ debug' = TRUE
    /\ log' = Append(log, Event("isfile src",
                                isfile(files, ExtSrc(osName, sysPlatform)), None))
    /\ extPc' = IF isfile(files, ExtSrc(osName, sysPlatform))
                THEN "copy" ELSE "reinitialize"
    /\ UNCHANGED <<env, files, invocations, command, target, v8Pc, exc,
                   caught, filesAtRun>>

\* self.reinitialize_command("build_v8", target="py_mini_racer_shared_lib")
\* setuptools' Command takes the keyword and sets it on the freshly
\* initialized command object; distutils' Command (the fallback import)
\* takes no keywords, so the call raises TypeError.
ExtReinitializeCommand ==
    /\ extPc = "reinitialize"
    /\ IF useSetuptools
       THEN /\ target' = Some(SHARED_LIB_TARGET)
            /\ log' = Append(log, Event("reinitialize_command", TRUE,
                                        Some(SHARED_LIB_TARGET)))
            /\ exc' = exc
            /\ extPc' = "run_command"
       ELSE /\ target' = target
            /\ log' = Append(log, Event("reinitialize_command", FALSE,
                                        Some(SHARED_LIB_TARGET)))
            /\ exc' = Raised("TypeError",
                   "reinitialize_command() got an unexpected keyword argument 'target'")
            /\ extPc' = "except"
    /\ UNCHANGED <<env, files, invocations, command, debug, v8Pc, caught,
                   filesAtRun>>

\* self.run_command("build_v8"): MiniRacerBuildV8.run is entered
ExtRunCommand ==
    /\ extPc = "run_command"
    /\ v8Pc = "idle"
    /\ v8Pc' = "start"
    /\ extPc' = "in_run_command"
    /\ filesAtRun' = files
    /\ log' = Append(log, Event("run", TRUE, target))
    /\ UNCHANGED <<env, files, invocations, command, target, debug, exc, caught>>

\* run_command returns, or the exception of run arrives at the except clause
ExtRunCommandDone ==
    /\ extPc = "in_run_command"
    /\ v8Pc \in {"returned", "raised"}
    /\ extPc' = IF v8Pc = "returned" THEN "copy" ELSE "except"
    /\ UNCHANGED <<env, files, invocations, command, target, debug, v8Pc,
                   exc, caught, filesAtRun, log>>

\* copy_file(src, dest): DistutilsFileError when src is no file; otherwise
\* the copy is made, or writing dest fails.
ExtCopyFile ==
    /\ extPc = "copy"
    /\ IF ~isfile(files, ExtSrc(osName, sysPlatform))
       THEN /\ log' = Append(log, Event("copy_file", FALSE, None))
            /\ files' = files
            /\ exc' = Raised("DistutilsFileError", "can't copy: not a regular file")
            /\ extPc' = "except"
       ELSE \E ok \in BOOLEAN :
               /\ log' = Append(log, Event("copy_file", ok, None))
               /\ IF ok
                  THEN /\ files' = files \cup {ExtDest}
                       /\ exc' = exc
                       /\ extPc' = "returned"
                  ELSE /\ files' = files
                       /\ exc' = Raised("DistutilsFileError", "could not create dest")
                       /\ extPc' = "except"
    /\ UNCHANGED <<env, invocations, command, target, debug, v8Pc, caught,
                   filesAtRun>>

\* except Exception as e: traceback.print_exc();
\* raise Exception(err_msg % repr(e))
ExtExcept ==
    /\ extPc = "except"
    /\ caught' = exc
    /\ exc' = Raised("Exception", ErrMsg(exc))
    /\ log' = Append(log, Event("print_exc", TRUE, None))
    /\ extPc' = "raised"
    /\ UNCHANGED <<env, files, invocations, command, target, debug, v8Pc,
                   filesAtRun>>

-----------------------------------------------------------------------------

Next ==
    \/ \E t \in Targets : InvokeBuildV8(t)
    \/ InvokeBuildExt
    \/ Exit
    \/ RunCheckBuilt
    \/ RunCheckPython
    \/ RunCheckDepotTools
    \/ RunCloneDepotTools
    \/ RunBuildV8
    \/ ExtCheckSrc
    \/ ExtReinitializeCommand
    \/ ExtRunCommand
    \/ ExtRunCommandDone
    \/ ExtCopyFile
    \/ ExtExcept

Spec == Init /\ [][Next]_vars

-----------------------------------------------------------------------------
(* Properties *)

EventsAt(ev) == {i \in DOMAIN log : log[i].ev = ev}

\* The `python` executable is a Python 2.7.
IsPython27 == pythonExe.found /\ pythonExe.out = Py27Out

\* run took the 'v8 was already built' return
ShortCircuited == EventsAt("print already built") # {}

\* run is past its first `if`
PastFirstIf == v8Pc \in {"check_python", "check_depot", "clone", "build",
                         "returned", "raised"}

\* the exception run raised (build_extensions wraps it afterwards)
RunException == IF extPc = "raised" THEN caught ELSE exc

\* C8: build_v8() is invoked only in a run whose check_python_version()
\* returned True and after the depot_tools check of that run (and after a
\* successful clone when the directory was absent); a run that is not
\* short-circuited with a python that is not Python 2.7 raises an exception
\* and neither clones depot_tools nor invokes build_v8.
C8_BuildOnlyAfterChecks ==
    /\ \A i \in EventsAt("build_v8") :
          /\ IsPython27
          /\ \E j \in EventsAt("check_python_version") : j < i /\ log[j].ok
          /\ \E k \in EventsAt("is_depot_tools_checkout") :
                /\ k < i
                /\ log[k].ok = (local_path(DepotToolsDir) \in filesAtRun)
                /\ \/ log[k].ok
                   \/ \E m \in EventsAt("git clone") : k < m /\ m < i /\ log[m].ok
    /\ (PastFirstIf /\ ~ShortCircuited /\ ~IsPython27) =>
          \/ v8Pc = "check_python"
          \/ /\ v8Pc = "raised"
             /\ RunException.type \in {"Exception", "OSError"}
             /\ pythonExe.found => RunException = Raised("Exception", PYTHON_MSG)
             /\ EventsAt("git clone") = {}
             /\ EventsAt("build_v8") = {}
             /\ files = filesAtRun

\* build_v8 was invoked after depot_tools had to be cloned
C8_Witness ==
    \E i \in EventsAt("build_v8"), m \in EventsAt("git clone") : m < i

\* C9: run takes the 'v8 was already built' return exactly when the target
\* is None or "v8" and V8 is built; it then returns without checking the
\* python version, cloning depot_tools or calling build_v8; with any other
\* target (build_ext always asks for "py_mini_racer_shared_lib") a run that
\* returns has called build_v8, built V8 or not.
C9_ShortCircuitExactly ==
    /\ PastFirstIf =>
          /\ ShortCircuited <=> (target \in {None, Some("v8")} /\ V8Lib \in filesAtRun)
          /\ ShortCircuited =>
                /\ v8Pc = "returned"
                /\ EventsAt("check_python_version") = {}
                /\ EventsAt("is_depot_tools_checkout") = {}
                /\ EventsAt("git clone") = {}
                /\ EventsAt("build_v8") = {}
                /\ files = filesAtRun
          /\ (target \notin {None, Some("v8")} /\ v8Pc = "returned") =>
                \E i \in EventsAt("build_v8") : log[i].ok /\ log[i].arg = target
    /\ (command = "build_ext" /\ v8Pc # "idle") => target = Some(SHARED_LIB_TARGET)

\* `build_v8 --target=v8` returned at once because V8 was built
C9_Witness ==
    /\ ShortCircuited
    /\ v8Pc = "returned"
    /\ target = Some("v8")

\* build_extensions has returned or raised
ExtDone == extPc \in {"returned", "raised"}

\* the src library was absent when build_extensions tested it
SrcWasAbsent == \E i \in EventsAt("isfile src") : ~log[i].ok

\* C10: build_extensions runs the build_v8 command, with target
\* "py_mini_racer_shared_lib", if and only if the platform-named shared
\* library is absent; it copies only after that step; every failure ends in
\* a raised Exception whose message carries the repr of the original error;
\* it returns normally only with the copy made.
C10_BuildIffAbsentThenCopy ==
    /\ ExtDone =>
          ((\E i \in EventsAt("run") : log[i].arg = Some(SHARED_LIB_TARGET))
              <=> SrcWasAbsent)
    /\ \A c \in EventsAt("copy_file") :
          /\ \A i \in EventsAt("run") : i < c
          /\ SrcWasAbsent => v8Pc = "returned"
    /\ extPc = "raised" =>
          /\ caught # NoExc
          /\ exc = Raised("Exception", ERR_MSG_HEAD \o Repr(caught))
    /\ extPc = "returned" =>
          /\ \E c \in EventsAt("copy_file") : log[c].ok
          /\ ExtDest \in files
    /\ (ExtDone /\ \E i \in DOMAIN log : ~log[i].ok /\ log[i].ev # "isfile src"
                                          /\ log[i].ev # "is_depot_tools_checkout")
          => extPc = "raised"

\* The same, where the Command base class is setuptools' (lines 18-20).
C10_WithSetuptools == useSetuptools => C10_BuildIffAbsentThenCopy

====
